---- MODULE Spec2Model ----
(***************************************************************************)
(* Register-bookkeeping bloqs of qualtran/bloqs/bookkeeping/util_bloqs.py: *)
(* Split, Join, Partition, Allocate, Free, Cast, Power (and the            *)
(* ArbitraryClifford placeholder that Power can wrap).                     *)
(*                                                                         *)
(* The bloqs are immutable values; the state of the model is one bloq      *)
(* under test together with the values that flow through the calls made   *)
(* on it: construction, adjoint(), on_classical_vals(), as_cirq_op(),      *)
(* __pow__() and build_composite_bloq().                                   *)
(*                                                                         *)
(* Encodings.                                                              *)
(*  - A bit-width (SymbolicInt) is an integer: k >= 0 is the Python int k, *)
(*    a negative number -s is the sympy symbol number s. Python's `!=`     *)
(*    between an int and a sympy symbol is structural and yields True,     *)
(*    which is integer inequality under this encoding.                     *)
(*  - A classical value or a wire array is a record                        *)
(*    [ndarray, shape, a]: a Python/numpy scalar has ndarray = FALSE and   *)
(*    a = the integer; a numpy array has ndarray = TRUE, its shape, and    *)
(*    a = the nested sequences of its elements (row-major).                *)
(*  - An exception is a record [cls |-> "ValueError"] in place of the      *)
(*    object, or status "ValueError" in place of the returned dictionary.  *)
(***************************************************************************)
EXTENDS Integers, Sequences, FiniteSets, TLC

VARIABLES bloq, orig, hist, arg, ret, bb

vars == <<bloq, orig, hist, arg, ret, bb>>

\* Largest concrete bit-width of a dtype.
MaxBits == 3
\* Largest size n of the lumped register of a Partition.
MaxN == 4
\* Largest repeat count and largest |exponent| tried on Power.
MaxPower == 3
\* Number of calls made on one constructed bloq.
MaxCalls == 3

----------------------------------------------------------------------------
(* Data types, registers, shapes *)

IsInt(w) == w >= 0

QBit == [name |-> "QBit", bitsize |-> 1]
QAny(w) == [name |-> "QAny", bitsize |-> w]
QUInt(w) == [name |-> "QUInt", bitsize |-> w]

num_qubits(dtype) == dtype.bitsize

Register(name, dtype, shape, side) ==
  [name |-> name, dtype |-> dtype, shape |-> shape, side |-> side]

RECURSIVE Prod(_)
Prod(shape) == IF shape = <<>> THEN 1 ELSE Head(shape) * Prod(Tail(shape))

ValueError == [cls |-> "ValueError"]
NoBloq == [cls |-> "None"]
IsBloq(b) == b.cls \notin {"ValueError", "None"}

----------------------------------------------------------------------------
(* Constructors *)

Split(dtype) == [cls |-> "Split", dtype |-> dtype]
Join(dtype) == [cls |-> "Join", dtype |-> dtype]
Allocate(dtype) == [cls |-> "Allocate", dtype |-> dtype]
Free(dtype) == [cls |-> "Free", dtype |-> dtype]
ArbitraryClifford(n) == [cls |-> "ArbitraryClifford", n |-> n]
Partition(n, regs, partition) ==
  [cls |-> "Partition", n |-> n, regs |-> regs, partition |-> partition]

\* The check is made only when the input width is a Python int; `!=` against
\* a symbolic output width is then True.
Cast_post_init_ok(inp_dtype, out_dtype) ==
  IF IsInt(num_qubits(inp_dtype))
    THEN ~(num_qubits(inp_dtype) # num_qubits(out_dtype))
    ELSE TRUE

\* shape is passed as a tuple; the converter leaves a tuple as it is.
Cast(inp_dtype, out_dtype, shape) ==
  IF Cast_post_init_ok(inp_dtype, out_dtype)
    THEN [cls |-> "Cast", inp_dtype |-> inp_dtype, out_dtype |-> out_dtype,
          shape |-> shape]
    ELSE ValueError

\* Bloq.adjoint() of a bloq that does not override it, and Adjoint.subbloq.
BloqAdjoint(b) ==
  IF b.cls = "Adjoint" THEN b.subbloq ELSE [cls |-> "Adjoint", subbloq |-> b]

FlipSide(side) ==
  CASE side = "LEFT" -> "RIGHT" [] side = "RIGHT" -> "LEFT" [] OTHER -> side

RECURSIVE Signature(_)
Signature(b) ==
  CASE b.cls = "Split" ->
         << Register("reg", b.dtype, <<>>, "LEFT"),
            Register("reg", QBit, <<num_qubits(b.dtype)>>, "RIGHT") >>
    [] b.cls = "Join" ->
         << Register("reg", QBit, <<num_qubits(b.dtype)>>, "LEFT"),
            Register("reg", b.dtype, <<>>, "RIGHT") >>
    [] b.cls = "Partition" ->
         LET lumped == IF b.partition THEN "LEFT" ELSE "RIGHT"
             partitioned == IF b.partition THEN "RIGHT" ELSE "LEFT"
         IN  << Register("x", QAny(b.n), <<>>, lumped) >>
             \o [i \in 1..Len(b.regs) |->
                   [b.regs[i] EXCEPT !.side = partitioned]]
    [] b.cls = "Allocate" -> << Register("reg", b.dtype, <<>>, "RIGHT") >>
    [] b.cls = "Free" -> << Register("reg", b.dtype, <<>>, "LEFT") >>
    [] b.cls = "ArbitraryClifford" -> << Register("x", QAny(b.n), <<>>, "THRU") >>
    [] b.cls = "Cast" ->
         << Register("reg", b.inp_dtype, b.shape, "LEFT"),
            Register("reg", b.out_dtype, b.shape, "RIGHT") >>
    [] b.cls = "Power" -> Signature(b.bloq)
    [] b.cls = "Adjoint" ->
         LET s == Signature(b.subbloq)
         IN  [i \in 1..Len(s) |-> [s[i] EXCEPT !.side = FlipSide(s[i].side)]]

\* The power of a Power: a Python int, a numpy integer, a Python float, or a
\* sympy expression c*p (v is the value, or the coefficient c).
PyInt(v) == [kind |-> "int", v |-> v]
NpInt(v) == [kind |-> "np.integer", v |-> v]
PyFloat(v) == [kind |-> "float", v |-> v]
SymPower(c) == [kind |-> "sympy", v |-> c]

is_symbolic(power) == power.kind = "sympy"

Power_post_init_ok(b, power) ==
  /\ ~(\E i \in 1..Len(Signature(b)) : Signature(b)[i].side # "THRU")
  /\ ~(/\ ~is_symbolic(power)
       /\ (power.kind \notin {"int", "np.integer"} \/ power.v < 1))

Power(b, power) ==
  IF Power_post_init_ok(b, power)
    THEN [cls |-> "Power", bloq |-> b, power |-> power]
    ELSE ValueError

----------------------------------------------------------------------------
(* adjoint() *)

Split_adjoint(b) == Join(b.dtype)
Join_adjoint(b) == Split(b.dtype)
Partition_adjoint(b) == [b EXCEPT !.partition = ~b.partition]
Allocate_adjoint(b) == Free(b.dtype)
Free_adjoint(b) == Allocate(b.dtype)
Cast_adjoint(b) == Cast(b.out_dtype, b.inp_dtype, <<>>)

RECURSIVE adjoint(_)
Power_adjoint(b) ==
  LET sub == adjoint(b.bloq)
  IN  IF IsBloq(sub) THEN Power(sub, b.power) ELSE ValueError

adjoint(b) ==
  CASE b.cls = "Split" -> Split_adjoint(b)
    [] b.cls = "Join" -> Join_adjoint(b)
    [] b.cls = "Partition" -> Partition_adjoint(b)
    [] b.cls = "Allocate" -> Allocate_adjoint(b)
    [] b.cls = "Free" -> Free_adjoint(b)
    [] b.cls = "Cast" -> Cast_adjoint(b)
    [] b.cls = "Power" -> Power_adjoint(b)
    [] OTHER -> BloqAdjoint(b)

----------------------------------------------------------------------------
(* Classical values, numpy helpers, bits <-> integers *)

Scalar(i) == [ndarray |-> FALSE, shape |-> <<>>, a |-> i]
NDArray(shape, a) == [ndarray |-> TRUE, shape |-> shape, a |-> a]

Min(a, b) == IF a < b THEN a ELSE b

\* Python's s[start : stop] on a sequence (0-based, clamped to the length).
Slice(s, start, stop) == SubSeq(s, Min(start, Len(s)) + 1, Min(stop, Len(s)))

RECURSIVE concatenate(_)
concatenate(seqs) ==
  IF seqs = <<>> THEN <<>> ELSE Head(seqs) \o concatenate(Tail(seqs))

\* numpy.reshape of a flat sequence (C order) into nested sequences.
RECURSIVE reshape(_, _)
reshape(flat, shape) ==
  IF shape = <<>>
    THEN flat[1]
    ELSE LET inner == Prod(Tail(shape))
         IN  [i \in 1..Head(shape) |->
                reshape(SubSeq(flat, (i - 1) * inner + 1, i * inner), Tail(shape))]

\* numpy.ravel of nested sequences of depth nd.
RECURSIVE ravelN(_, _)
ravelN(a, nd) ==
  IF nd = 0
    THEN <<a>>
    ELSE concatenate([i \in 1..Len(a) |-> ravelN(a[i], nd - 1)])

ravel(val) == ravelN(val.a, Len(val.shape))

\* classical_sim.ints_to_bits: one big-endian row of width w per integer.
ints_to_bits(xs, w) ==
  [j \in 1..Len(xs) |-> [i \in 1..w |-> (xs[j] \div (2 ^ (w - i))) % 2]]

RECURSIVE bits_to_int(_)
bits_to_int(bits) ==
  IF bits = <<>>
    THEN 0
    ELSE 2 * bits_to_int(SubSeq(bits, 1, Len(bits) - 1)) + bits[Len(bits)]

\* classical_sim.bits_to_ints: one integer per big-endian row.
bits_to_ints(rows) == [j \in 1..Len(rows) |-> bits_to_int(rows[j])]

Ok(kind, vals) == [status |-> "ok", kind |-> kind, vals |-> vals]
Raised(kind) == [status |-> "ValueError", kind |-> kind, vals |-> <<>>]

----------------------------------------------------------------------------
(* on_classical_vals() *)

\* Mutant: the bits come out least significant bit first.
Split_on_classical_vals_lsb_first(b, reg) ==
  Ok("classical",
     [nm \in {"reg"} |->
        NDArray(<<num_qubits(b.dtype)>>,
                [i \in 1..num_qubits(b.dtype) |-> (reg.a \div (2 ^ (i - 1))) % 2])])

Split_on_classical_vals(b, reg) ==
  Ok("classical",
     [nm \in {"reg"} |->
        NDArray(<<num_qubits(b.dtype)>>,
                ints_to_bits(<<reg.a>>, num_qubits(b.dtype))[1])])

Join_on_classical_vals(b, reg) ==
  Ok("classical", [nm \in {"reg"} |-> Scalar(bits_to_ints(<<reg.a>>)[1])])

\* Mutant: the size of a sub-register forgets the volume of its shape.
RegSize_no_shape(reg) == reg.dtype.bitsize

RegSize(reg) == Prod(reg.shape \o <<reg.dtype.bitsize>>)

\* The value of `start` when the loop over self.regs reaches regs[i].
RECURSIVE StartAt(_, _)
StartAt(regs, i) ==
  IF i = 1 THEN 0 ELSE StartAt(regs, i - 1) + RegSize(regs[i - 1])

\* Mutant: start is never advanced, every slice begins at bit 0.
BitsReg_no_advance(xbits, regs, i) == Slice(xbits, 0, RegSize(regs[i]))

\* bits_reg = xbits[start : start + size] for regs[i].
BitsReg(xbits, regs, i) ==
  Slice(xbits, StartAt(regs, i), StartAt(regs, i) + RegSize(regs[i]))

\* The bitsize-wide chunks of bits_reg, one per element of a shaped register.
Chunks(bits_reg, reg) ==
  [i \in 1..Prod(reg.shape) |->
     Slice(bits_reg, (i - 1) * reg.dtype.bitsize, i * reg.dtype.bitsize)]

\* numpy cannot make a 2-D array of rows of different lengths.
Ragged(rows) == \E i, j \in 1..Len(rows) : Len(rows[i]) # Len(rows[j])

RegIndex(regs, nm) == CHOOSE i \in 1..Len(regs) : regs[i].name = nm

Partition_classical_partition(b, x) ==
  LET xbits == ints_to_bits(<<x.a>>, b.n)[1]
      names == {b.regs[i].name : i \in 1..Len(b.regs)}
      out(i) ==
        LET reg == b.regs[i]
            bits_reg == BitsReg(xbits, b.regs, i)
        IN  IF reg.shape = <<>>
              THEN Scalar(bits_to_ints(<<bits_reg>>)[1])
              ELSE NDArray(reg.shape,
                           reshape(bits_to_ints(Chunks(bits_reg, reg)), reg.shape))
  IN  IF \E i \in 1..Len(b.regs) :
           b.regs[i].shape # <<>> /\ Ragged(Chunks(BitsReg(xbits, b.regs, i), b.regs[i]))
        THEN Raised("classical")
        ELSE Ok("classical", [nm \in names |-> out(RegIndex(b.regs, nm))])

\* Mutant: the sub-registers are merged in reverse declaration order.
Partition_classical_unpartition_reversed(b, vals) ==
  LET k == Len(b.regs)
      out_vals ==
        [i \in 1..k |->
           LET reg == b.regs[k + 1 - i]
               reg_val == vals[reg.name]
           IN  IF reg_val.ndarray
                 THEN concatenate(ints_to_bits(ravel(reg_val), reg.dtype.bitsize))
                 ELSE ints_to_bits(<<reg_val.a>>, reg.dtype.bitsize)[1]]
      big_int == concatenate(out_vals)
  IN  Ok("classical", [nm \in {"x"} |-> Scalar(bits_to_ints(<<big_int>>)[1])])

Partition_classical_unpartition(b, vals) ==
  LET out_vals ==
        [i \in 1..Len(b.regs) |->
           LET reg == b.regs[i]
               reg_val == vals[reg.name]
           IN  IF reg_val.ndarray
                 THEN concatenate(ints_to_bits(ravel(reg_val), reg.dtype.bitsize))
                 ELSE ints_to_bits(<<reg_val.a>>, reg.dtype.bitsize)[1]]
      big_int == concatenate(out_vals)
  IN  Ok("classical", [nm \in {"x"} |-> Scalar(bits_to_ints(<<big_int>>)[1])])

Partition_on_classical_vals(b, vals) ==
  IF b.partition
    THEN Partition_classical_partition(b, vals["x"])
    ELSE Partition_classical_unpartition(b, vals)

Allocate_on_classical_vals(b) == Ok("classical", [nm \in {"reg"} |-> Scalar(0)])

\* Mutant: a non-zero register is freed silently.
Free_on_classical_vals_silent(b, reg) == Ok("classical", <<>>)

Free_on_classical_vals(b, reg) ==
  IF reg.a # 0 THEN Raised("classical") ELSE Ok("classical", <<>>)

Cast_on_classical_vals(b, reg) == Ok("classical", [nm \in {"reg"} |-> reg])

on_classical_vals(b, vals) ==
  CASE b.cls = "Split" -> Split_on_classical_vals(b, vals["reg"])
    [] b.cls = "Join" -> Join_on_classical_vals(b, vals["reg"])
    [] b.cls = "Partition" -> Partition_on_classical_vals(b, vals)
    [] b.cls = "Allocate" -> Allocate_on_classical_vals(b)
    [] b.cls = "Free" -> Free_on_classical_vals(b, vals["reg"])
    [] b.cls = "Cast" -> Cast_on_classical_vals(b, vals["reg"])

----------------------------------------------------------------------------
(* as_cirq_op() of Partition: keyword arguments and the returned dictionary  *)
(* are ordered, a sequence of items [name, val].                             *)

Item(name, val) == [name |-> name, val |-> val]

Lookup(items, nm) == items[CHOOSE i \in 1..Len(items) : items[i].name = nm].val

Partition_as_cirq_op(b, cirq_quregs) ==
  IF b.partition
    THEN LET x == ravel(Lookup(cirq_quregs, "x"))
             shape(i) == b.regs[i].shape \o <<b.regs[i].dtype.bitsize>>
             piece(i) ==
               Slice(x, StartAt(b.regs, i), StartAt(b.regs, i) + Prod(shape(i)))
         IN  IF \E i \in 1..Len(b.regs) : Len(piece(i)) # Prod(shape(i))
               THEN Raised("cirq")
               ELSE Ok("cirq",
                       [i \in 1..Len(b.regs) |->
                          Item(b.regs[i].name,
                               NDArray(shape(i), reshape(piece(i), shape(i))))])
    ELSE Ok("cirq",
            << Item("x",
                    LET flat == concatenate([i \in 1..Len(cirq_quregs) |->
                                               ravel(cirq_quregs[i].val)])
                    IN  NDArray(<<Len(flat)>>, flat)) >>)

----------------------------------------------------------------------------
(* Power: __pow__() and build_composite_bloq() *)

abs(m) == IF m < 0 THEN -m ELSE m

\* Mutant: the repeat count is multiplied by the exponent, not by its magnitude.
Power_pow_no_abs(b, power) ==
  LET sub == IF power < 0 THEN adjoint(b.bloq) ELSE b.bloq
  IN  Power(sub, [b.power EXCEPT !.v = @ * power])

Power_pow(b, power) ==
  LET sub == IF power < 0 THEN adjoint(b.bloq) ELSE b.bloq
  IN  Power(sub, [b.power EXCEPT !.v = @ * abs(power)])

Soquet(binst, reg) == [binst |-> binst, reg |-> reg]

\* BloqBuilder.add_d: a new bloq instance wired to soqs; its output soquets.
add_d_builder(builder, b, soqs) == Append(builder, [bloq |-> b, soqs |-> soqs])
add_d_soqs(builder, b, soqs) ==
  [nm \in DOMAIN soqs |-> Soquet(Len(builder) + 1, nm)]

\* for _ in range(k): soqs = bb.add_d(self.bloq, **soqs)
RECURSIVE RepeatAdd(_, _, _, _)
RepeatAdd(builder, b, soqs, k) ==
  IF k <= 0
    THEN [bb |-> builder, soqs |-> soqs]
    ELSE RepeatAdd(add_d_builder(builder, b, soqs), b,
                   add_d_soqs(builder, b, soqs), k - 1)

Power_build_composite_bloq(b, builder, soqs) ==
  IF ~(b.power.kind = "int")
    THEN [bb |-> builder, ret |-> Raised("soqs")]
    ELSE LET r == RepeatAdd(builder, b.bloq, soqs, b.power.v)
         IN  [bb |-> r.bb, ret |-> Ok("soqs", r.soqs)]

----------------------------------------------------------------------------
(* Inputs *)

Symbols == {-1, -2}
Widths == (1..MaxBits) \cup Symbols
DTypes == {QBit} \cup {QAny(w) : w \in Widths} \cup {QUInt(w) : w \in Widths}
Shapes == {<<>>, <<2>>, <<2, 2>>}

\* Sub-registers of a Partition: one or two registers of 1 or 2 bits each.
RegChoices == {[dtype |-> QAny(w), shape |-> s] : w \in 1..2, s \in Shapes}
NameOrders == {<<"lo", "hi">>, <<"hi", "lo">>}
RegCounts == 1..2

\* Bloqs offered to Power: THRU-only ones and ones with LEFT/RIGHT registers.
CliffordSizes == 1..2
ThruBloqs ==
  {ArbitraryClifford(n) : n \in CliffordSizes}
    \cup {BloqAdjoint(ArbitraryClifford(n)) : n \in CliffordSizes}
    \cup {[cls |-> "Power", bloq |-> ArbitraryClifford(1), power |-> PyInt(2)]}
SubBloqs == ThruBloqs \cup {Split(QAny(2)), Allocate(QBit), Cast(QAny(2), QUInt(2), <<>>)}
Powers ==
  UNION {{PyInt(v), NpInt(v), PyFloat(v)} : v \in 0..MaxPower} \cup {SymPower(1)}

RECURSIVE BitsBefore(_, _)
\* Bits declared by the first i sub-registers: volume of the shape times bitsize.
BitsBefore(regs, i) ==
  IF i = 0
    THEN 0
    ELSE BitsBefore(regs, i - 1)
           + (IF regs[i].shape = <<>> THEN 1
              ELSE IF Len(regs[i].shape) = 1 THEN regs[i].shape[1]
              ELSE regs[i].shape[1] * regs[i].shape[2]) * regs[i].dtype.bitsize

TotalRegBits(regs) == BitsBefore(regs, Len(regs))

LeftRegs(b) ==
  LET s == Signature(b)
  IN  {s[i] : i \in {j \in 1..Len(s) : s[j].side \in {"LEFT", "THRU"}}}

WireSeqs(n) == {[i \in 1..n |-> i], [i \in 1..n |-> n + 1 - i]}

Perms(n) == {p \in [1..n -> 1..n] : \A i, j \in 1..n : p[i] = p[j] => i = j}

\* The named values of the sub-registers whose bits, in declaration order,
\* are the TotalRegBits-bit integer y.
UnpartitionInput(regs, y) ==
  LET T == TotalRegBits(regs)
      val(i) ==
        LET w == regs[i].dtype.bitsize
            off == BitsBefore(regs, i - 1)
            elem(j) == (y \div (2 ^ (T - off - j * w))) % (2 ^ w)
        IN  IF regs[i].shape = <<>>
              THEN Scalar(elem(1))
              ELSE NDArray(regs[i].shape,
                           reshape([j \in 1..Prod(regs[i].shape) |-> elem(j)],
                                   regs[i].shape))
  IN  [nm \in {regs[i].name : i \in 1..Len(regs)} |-> val(RegIndex(regs, nm))]

UnpartitionWires(regs, wires) ==
  [i \in 1..Len(regs) |->
     LET shape == regs[i].shape \o <<regs[i].dtype.bitsize>>
     IN  Item(regs[i].name,
              NDArray(shape,
                      reshape(SubSeq(wires, BitsBefore(regs, i - 1) + 1,
                                     BitsBefore(regs, i - 1) + Prod(shape)), shape)))]

FreshClassical(b) ==
  CASE b.cls = "Split" /\ IsInt(num_qubits(b.dtype)) ->
         {[nm \in {"reg"} |-> Scalar(x)] : x \in 0..(2 ^ num_qubits(b.dtype) - 1)}
    [] b.cls = "Join" /\ IsInt(num_qubits(b.dtype)) ->
         {[nm \in {"reg"} |-> NDArray(<<num_qubits(b.dtype)>>, bits)] :
            bits \in [1..num_qubits(b.dtype) -> {0, 1}]}
    [] b.cls = "Partition" /\ b.partition ->
         {[nm \in {"x"} |-> Scalar(x)] : x \in 0..(2 ^ b.n - 1)}
    [] b.cls = "Partition" /\ ~b.partition /\ TotalRegBits(b.regs) <= MaxN ->
         {UnpartitionInput(b.regs, y) : y \in 0..(2 ^ TotalRegBits(b.regs) - 1)}
    [] b.cls = "Allocate" -> {<<>>}
    [] b.cls = "Free" ->
         {[nm \in {"reg"} |-> Scalar(v)] :
            v \in 0..(IF IsInt(num_qubits(b.dtype))
                        THEN 2 ^ num_qubits(b.dtype) - 1 ELSE 1)}
    [] b.cls = "Cast" /\ b.shape = <<>> /\ IsInt(num_qubits(b.inp_dtype)) ->
         {[nm \in {"reg"} |-> Scalar(x)] : x \in 0..(2 ^ num_qubits(b.inp_dtype) - 1)}
    [] OTHER -> {}

\* The values a previous on_classical_vals returned fit the bloq's inputs.
Threads(b, r, kind) ==
  /\ r.status = "ok"
  /\ r.kind = kind
  /\ b.cls \in {"Split", "Join", "Partition", "Allocate", "Free", "Cast"}
  /\ \A reg \in LeftRegs(b) : IsInt(num_qubits(reg.dtype))

ClassicalInputs(b, r) ==
  IF r.status = "none"
    THEN FreshClassical(b)
    ELSE IF /\ Threads(b, r, "classical")
            /\ DOMAIN r.vals = {reg.name : reg \in LeftRegs(b)}
            /\ \A reg \in LeftRegs(b) : r.vals[reg.name].shape = reg.shape
           THEN {r.vals}
           ELSE {}

FreshCirq(b) ==
  CASE b.cls = "Partition" /\ b.partition ->
         {<<Item("x", NDArray(<<b.n>>, w))>> : w \in WireSeqs(b.n)}
    [] b.cls = "Partition" /\ ~b.partition /\ TotalRegBits(b.regs) <= MaxN ->
         {UnpartitionWires(b.regs, w) : w \in WireSeqs(TotalRegBits(b.regs))}
    [] OTHER -> {}

CirqInputs(b, r) ==
  IF r.status = "none"
    THEN FreshCirq(b)
    ELSE IF /\ Threads(b, r, "cirq")
            /\ b.cls = "Partition"
            /\ {r.vals[i].name : i \in 1..Len(r.vals)} = {reg.name : reg \in LeftRegs(b)}
            /\ \A reg \in LeftRegs(b) :
                 Lookup(r.vals, reg.name).shape = reg.shape \o <<num_qubits(reg.dtype)>>
           THEN {r.vals}
           ELSE {}

NoRet == [status |-> "none", kind |-> "none", vals |-> <<>>]
NoArg == [kind |-> "none"]

----------------------------------------------------------------------------
(* The state machine *)

Init ==
  /\ bloq = NoBloq
  /\ orig = NoBloq
  /\ hist = <<>>
  /\ arg = NoArg
  /\ ret = NoRet
  /\ bb = <<>>

\* Construction: orig records the constructor call, bloq what it produced.
NewSplit ==
  /\ bloq = NoBloq
  /\ \E d \in DTypes : bloq' = Split(d) /\ orig' = Split(d)
  /\ UNCHANGED <<hist, arg, ret, bb>>

NewJoin ==
  /\ bloq = NoBloq
  /\ \E d \in DTypes : bloq' = Join(d) /\ orig' = Join(d)
  /\ UNCHANGED <<hist, arg, ret, bb>>

NewAllocate ==
  /\ bloq = NoBloq
  /\ \E d \in DTypes : bloq' = Allocate(d) /\ orig' = Allocate(d)
  /\ UNCHANGED <<hist, arg, ret, bb>>

NewFree ==
  /\ bloq = NoBloq
  /\ \E d \in DTypes : bloq' = Free(d) /\ orig' = Free(d)
  /\ UNCHANGED <<hist, arg, ret, bb>>

NewCast ==
  /\ bloq = NoBloq
  /\ \E i \in DTypes, o \in DTypes, s \in Shapes :
       /\ bloq' = Cast(i, o, s)
       /\ orig' = [cls |-> "Cast", inp_dtype |-> i, out_dtype |-> o, shape |-> s]
  /\ UNCHANGED <<hist, arg, ret, bb>>

NewPartition ==
  /\ bloq = NoBloq
  /\ \E k \in RegCounts, names \in NameOrders, n \in 1..MaxN, p \in BOOLEAN :
       \E c \in [1..k -> RegChoices] :
         LET regs == [i \in 1..k |->
                        Register(names[i], c[i].dtype, c[i].shape, "THRU")]
         IN  bloq' = Partition(n, regs, p) /\ orig' = Partition(n, regs, p)
  /\ UNCHANGED <<hist, arg, ret, bb>>

NewPower ==
  /\ bloq = NoBloq
  /\ \E b \in SubBloqs, p \in Powers :
       /\ bloq' = Power(b, p)
       /\ orig' = [cls |-> "Power", bloq |-> b, power |-> p]
  /\ UNCHANGED <<hist, arg, ret, bb>>

Adjoint ==
  /\ IsBloq(bloq)
  /\ Len(hist) < MaxCalls
  /\ bloq' = adjoint(bloq)
  /\ hist' = Append(hist, "adjoint")
  /\ UNCHANGED <<orig, arg, ret, bb>>

OnClassicalVals ==
  /\ IsBloq(bloq)
  /\ Len(hist) < MaxCalls
  /\ \E vals \in ClassicalInputs(bloq, ret) :
       /\ ret' = on_classical_vals(bloq, vals)
       /\ arg' = IF ret.status = "none"
                   THEN [kind |-> "classical", vals |-> vals] ELSE arg
  /\ hist' = Append(hist, "on_classical_vals")
  /\ UNCHANGED <<bloq, orig, bb>>

\* The caller passes the named wire arrays as keyword arguments, in any order.
AsCirqOp ==
  /\ IsBloq(bloq)
  /\ Len(hist) < MaxCalls
  /\ \E items \in CirqInputs(bloq, ret) :
       \E p \in Perms(Len(items)) :
         LET kwargs == [i \in 1..Len(items) |-> items[p[i]]]
         IN  /\ ret' = Partition_as_cirq_op(bloq, kwargs)
             /\ arg' = IF ret.status = "none"
                         THEN [kind |-> "cirq", vals |-> kwargs] ELSE arg
  /\ hist' = Append(hist, "as_cirq_op")
  /\ UNCHANGED <<bloq, orig, bb>>

Pow ==
  /\ IsBloq(bloq)
  /\ bloq.cls = "Power"
  /\ Len(hist) < MaxCalls
  /\ \E m \in (-MaxPower)..MaxPower :
       /\ bloq' = Power_pow(bloq, m)
       /\ arg' = [kind |-> "int", m |-> m]
  /\ hist' = Append(hist, "__pow__")
  /\ UNCHANGED <<orig, ret, bb>>

BuildCompositeBloq ==
  /\ IsBloq(bloq)
  /\ bloq.cls = "Power"
  /\ Len(hist) < MaxCalls
  /\ bb = <<>>
  /\ LET names == {reg.name : reg \in LeftRegs(bloq)}
         soqs == [nm \in names |-> Soquet(0, nm)]
         r == Power_build_composite_bloq(bloq, bb, soqs)
     IN  /\ bb' = r.bb
         /\ ret' = r.ret
         /\ arg' = [kind |-> "soqs", vals |-> soqs]
  /\ hist' = Append(hist, "build_composite_bloq")
  /\ UNCHANGED <<bloq, orig>>

Next ==
  \/ NewSplit
  \/ NewJoin
  \/ NewAllocate
  \/ NewFree
  \/ NewCast
  \/ NewPartition
  \/ NewPower
  \/ Adjoint
  \/ OnClassicalVals
  \/ AsCirqOp
  \/ Pow
  \/ BuildCompositeBloq

Spec == Init /\ [][Next]_vars

----------------------------------------------------------------------------
(* Vocabulary of the claims *)

Evals == {"on_classical_vals", "as_cirq_op"}
EvalCount == Cardinality({i \in 1..Len(hist) : hist[i] \in Evals})

\* The call just made is `call`, and it is the first one given fresh inputs
\* (arg holds them, ret what it returned).
FirstEval(call) ==
  /\ hist # <<>>
  /\ hist[Len(hist)] = call
  /\ EvalCount = 1

ValidPartition(b) == b.cls = "Partition" /\ TotalRegBits(b.regs) = b.n

\* Element j (row-major, from 1) of a value of at most two dimensions.
ElemAt(val, j) ==
  IF val.shape = <<>> THEN val.a
  ELSE IF Len(val.shape) = 1 THEN val.a[j]
  ELSE val.a[((j - 1) \div val.shape[2]) + 1][((j - 1) % val.shape[2]) + 1]

Volume(shape) ==
  IF shape = <<>> THEN 1
  ELSE IF Len(shape) = 1 THEN shape[1] ELSE shape[1] * shape[2]

RECURSIVE WeightedSum(_)
WeightedSum(bits) ==
  IF bits = <<>> THEN 0
  ELSE bits[1] * (2 ^ (Len(bits) - 1)) + WeightedSum(Tail(bits))

ConcretePower(power) == power.kind \in {"int", "np.integer"}

----------------------------------------------------------------------------
(* C3 *)

\* C3: Split(dtype).on_classical_vals(x), for a concrete bit-width k and x in
\* [0, 2^k), is the length-k array of bits of x, most significant bit first
\* (k = 3, x = 5 gives [1, 0, 1]); Join(dtype).on_classical_vals of that array
\* returns x.
C3_SplitJoinRoundTrip ==
  /\ (FirstEval("on_classical_vals") /\ bloq.cls = "Split") =>
       LET k == num_qubits(bloq.dtype)
           x == arg.vals["reg"].a
           out == ret.vals["reg"]
       IN  /\ ret.status = "ok"
           /\ out.ndarray /\ out.shape = <<k>> /\ Len(out.a) = k
           /\ \A i \in 1..k : out.a[i] \in {0, 1}
           /\ WeightedSum(out.a) = x
           /\ (k = 3 /\ x = 5) => out.a = <<1, 0, 1>>
  /\ (hist = <<"on_classical_vals", "adjoint", "on_classical_vals">>
        /\ orig.cls = "Split") =>
       /\ bloq = Join(orig.dtype)
       /\ ret.status = "ok"
       /\ ~ret.vals["reg"].ndarray
       /\ ret.vals["reg"].a = arg.vals["reg"].a

C3_Witness ==
  /\ hist = <<"on_classical_vals", "adjoint", "on_classical_vals">>
  /\ orig = Split(QUInt(3))
  /\ arg.vals["reg"].a = 5
  /\ ret.status = "ok"
  /\ ret.vals["reg"].a = 5

----------------------------------------------------------------------------
(* C4 *)

\* C4: Allocate.on_classical_vals always returns 0 for its register;
\* Free.on_classical_vals(0) succeeds and returns no outputs;
\* Free.on_classical_vals(v) with v # 0 raises a value error and returns nothing.
C4_AllocateFree ==
  /\ (hist # <<>> /\ hist[Len(hist)] = "on_classical_vals" /\ bloq.cls = "Allocate") =>
       /\ ret.status = "ok"
       /\ DOMAIN ret.vals = {"reg"}
       /\ ret.vals["reg"].a = 0
  /\ (FirstEval("on_classical_vals") /\ bloq.cls = "Free") =>
       IF arg.vals["reg"].a = 0
         THEN ret.status = "ok" /\ DOMAIN ret.vals = {}
         ELSE ret.status = "ValueError" /\ ret.vals = <<>>

C4_Witness ==
  /\ FirstEval("on_classical_vals")
  /\ bloq.cls = "Free"
  /\ arg.vals["reg"].a = 3
  /\ ret.status = "ValueError"

----------------------------------------------------------------------------
(* C1 *)

AllAdjoints == \A i \in 1..Len(hist) : hist[i] = "adjoint"

\* The same classical transform on every input of b2.
SameClassical(b1, b2) ==
  \A vals \in FreshClassical(b2) :
    on_classical_vals(b1, vals) = on_classical_vals(b2, vals)

\* C1: for every constructible Split, Join, Allocate, Free, Cast (of any shape)
\* and Partition, op.adjoint().adjoint() can be built and has the same
\* signature and the same classical transform as op.
C1_AdjointInvolution ==
  (/\ orig.cls \in {"Split", "Join", "Allocate", "Free", "Cast", "Partition"}
   /\ hist # <<>>
   /\ Len(hist) <= 2
   /\ AllAdjoints) =>
    /\ IsBloq(bloq)
    /\ Len(hist) = 2 =>
         /\ bloq.cls = orig.cls
         /\ Signature(bloq) = Signature(orig)
         /\ SameClassical(bloq, orig)

----------------------------------------------------------------------------
(* C2 *)

\* C2: for every Partition(n, regs) whose sub-registers' bit counts sum to n
\* and every x in [0, 2^n), on_classical_vals of the partition followed by
\* on_classical_vals of its adjoint returns exactly x, for scalar and for
\* shaped sub-registers.
C2_PartitionRoundTrip ==
  (/\ hist = <<"on_classical_vals", "adjoint", "on_classical_vals">>
   /\ ValidPartition(orig)
   /\ orig.partition) =>
    /\ bloq = Partition(orig.n, orig.regs, FALSE)
    /\ ret.status = "ok"
    /\ DOMAIN ret.vals = {"x"}
    /\ ret.vals["x"].a = arg.vals["x"].a

C2_Witness ==
  /\ hist = <<"on_classical_vals", "adjoint", "on_classical_vals">>
  /\ ValidPartition(orig)
  /\ orig.partition
  /\ Len(orig.regs) = 2
  /\ orig.regs[1].shape = <<2>>
  /\ orig.regs[2].shape = <<>>
  /\ arg.vals["x"].a = 6
  /\ ret.status = "ok"
  /\ ret.vals["x"].a = 6

----------------------------------------------------------------------------
(* C5 *)

\* C5: constructing Cast(inp_dtype, out_dtype) fails whenever both bit-widths
\* are concrete and unequal, and succeeds whenever they are equal or at least
\* one of the two is symbolic.
C5_CastGuard ==
  (orig.cls = "Cast" /\ hist = <<>>) =>
    LET i == num_qubits(orig.inp_dtype)
        o == num_qubits(orig.out_dtype)
    IN  /\ (IsInt(i) /\ IsInt(o) /\ i # o) => bloq = ValueError
        /\ (i = o \/ ~IsInt(i) \/ ~IsInt(o)) => bloq = orig

----------------------------------------------------------------------------
(* C6 *)

Magnitude(m) == IF m < 0 THEN 0 - m ELSE m

\* The Power that __pow__ was called on, and its exponent.
PowCalled ==
  /\ hist = <<"__pow__">>
  /\ orig.cls = "Power"
  /\ ConcretePower(orig.power)

PowerOf(b, m) ==
  [cls |-> "Power", bloq |-> b,
   power |-> [kind |-> orig.power.kind, v |-> orig.power.v * Magnitude(m)]]

\* C6 as stated: for every valid Power(B, p) with concrete p and every integer
\* m, Power(B, p) ** m is Power(B.adjoint(), p*|m|) for negative m and
\* Power(B, p*m) for non-negative m, m = 0 included; Power(B, p) ** (-1) equals
\* Power(B, p).adjoint().
C6_PowAsStated ==
  PowCalled =>
    /\ arg.m < 0 => bloq = PowerOf(adjoint(orig.bloq), arg.m)
    /\ arg.m >= 0 => bloq = PowerOf(orig.bloq, arg.m)
    /\ arg.m = -1 => bloq = Power_adjoint(orig)

\* C6 as amended: the same for every m # 0; for m = 0 the product p*m is 0 and
\* the construction of the result fails with a value error.
C6_PowNonZero ==
  PowCalled =>
    /\ arg.m < 0 => bloq = PowerOf(adjoint(orig.bloq), arg.m)
    /\ arg.m > 0 => bloq = PowerOf(orig.bloq, arg.m)
    /\ arg.m = 0 => bloq = ValueError
    /\ arg.m = -1 => bloq = Power_adjoint(orig)

C6_Witness ==
  /\ PowCalled
  /\ arg.m = -2
  /\ orig.power.v = 3
  /\ orig.bloq = ArbitraryClifford(2)
  /\ bloq.cls = "Power"
  /\ bloq.bloq.cls = "Adjoint"
  /\ bloq.power.v = 6

----------------------------------------------------------------------------
(* C7 *)

\* C7: for every Power(B, p) that construction accepts with a concrete positive
\* p, build_composite_bloq succeeds and adds exactly p applications of B, each
\* wired to the outputs of the previous one, and returns the last outputs; it
\* fails only when p is not a concrete integer.
C7_PowerExpansion ==
  (/\ hist = <<"build_composite_bloq">>
   /\ orig.cls = "Power"
   /\ bloq = orig) =>
    /\ (ConcretePower(orig.power) /\ orig.power.v >= 1) =>
         /\ ret.status = "ok"
         /\ Len(bb) = orig.power.v
         /\ \A i \in 1..Len(bb) :
              /\ bb[i].bloq = orig.bloq
              /\ bb[i].soqs = [nm \in DOMAIN arg.vals |-> Soquet(i - 1, nm)]
         /\ ret.vals = [nm \in DOMAIN arg.vals |-> Soquet(orig.power.v, nm)]
    /\ ret.status = "ValueError" => ~ConcretePower(orig.power)

----------------------------------------------------------------------------
(* C8 *)

SideBits(b, sides) ==
  LET sig == Signature(b)
      bits(i) == IF sig[i].side \in sides
                   THEN Volume(sig[i].shape) * num_qubits(sig[i].dtype) ELSE 0
      sum[i \in 0..Len(sig)] == IF i = 0 THEN 0 ELSE sum[i - 1] + bits(i)
  IN  sum[Len(sig)]

ConcreteSignature(b) ==
  LET sig == Signature(b)
  IN  \A i \in 1..Len(sig) :
        /\ IsInt(num_qubits(sig[i].dtype))
        /\ \A d \in 1..Len(sig[i].shape) : IsInt(sig[i].shape[d])

BitsConserved(b) == SideBits(b, {"LEFT", "THRU"}) = SideBits(b, {"RIGHT", "THRU"})

\* The slices _classical_partition takes from the n bits of x are whole and,
\* put one after the other, are the n bits of x.
SlicesTile(b, x) ==
  LET xbits == ints_to_bits(<<x>>, b.n)[1]
  IN  /\ \A i \in 1..Len(b.regs) :
           Len(BitsReg(xbits, b.regs, i))
             = Volume(b.regs[i].shape) * b.regs[i].dtype.bitsize
      /\ concatenate([i \in 1..Len(b.regs) |-> BitsReg(xbits, b.regs, i)]) = xbits

Conserving(b) ==
  /\ IsBloq(b)
  /\ b.cls \notin {"Allocate", "Free"}
  /\ ConcreteSignature(b)

\* C8 as stated: every constructible operation other than Allocate and Free has
\* as many left bits as right bits; every constructible Partition(n, regs) has
\* bit counts summing to n, and its classical transform neither drops bits of x
\* nor reads beyond the n-bit array.
C8_BitsAsStated ==
  Conserving(bloq) =>
    /\ BitsConserved(bloq)
    /\ bloq.cls = "Partition" => TotalRegBits(bloq.regs) = bloq.n
    /\ (FirstEval("on_classical_vals") /\ bloq.cls = "Partition" /\ bloq.partition) =>
         /\ ret.status = "ok"
         /\ SlicesTile(bloq, arg.vals["x"].a)

\* C8 as amended: construction does not check a Partition; the left and right
\* bit counts agree for Split, Join, Cast, Power, and for a Partition exactly
\* when its sub-registers' bit counts sum to n, and then the classical
\* transform takes whole slices that together are the n bits of x.
C8_BitsWhenValid ==
  Conserving(bloq) =>
    /\ bloq.cls # "Partition" => BitsConserved(bloq)
    /\ bloq.cls = "Partition" => (BitsConserved(bloq) <=> ValidPartition(bloq))
    /\ (/\ FirstEval("on_classical_vals")
        /\ ValidPartition(bloq)
        /\ bloq.partition) =>
         /\ ret.status = "ok"
         /\ SlicesTile(bloq, arg.vals["x"].a)

C8_Witness ==
  /\ FirstEval("on_classical_vals")
  /\ ValidPartition(bloq)
  /\ bloq.partition
  /\ bloq.n = 4
  /\ Len(bloq.regs) = 2
  /\ bloq.regs[1].shape = <<2>>
  /\ arg.vals["x"].a = 13
  /\ ret.status = "ok"

----------------------------------------------------------------------------
(* C9 *)

\* C9: in the partition direction x is read as n bits, most significant first;
\* the i-th declared sub-register gets the bits that start after the bits of
\* the sub-registers declared before it; the elements of a shaped sub-register
\* are the successive bitsize-wide chunks of its slice in row-major order, each
\* most significant bit first; names play no part (n = 4, 2-bit scalars lo, hi,
\* x = 11 gives lo = 2, hi = 3).
C9_PositionalSlicing ==
  (/\ FirstEval("on_classical_vals")
   /\ ValidPartition(bloq)
   /\ bloq.partition) =>
    LET x == arg.vals["x"].a
        regs == bloq.regs
    IN  /\ ret.status = "ok"
        /\ DOMAIN ret.vals = {regs[i].name : i \in 1..Len(regs)}
        /\ \A i \in 1..Len(regs) :
             LET val == ret.vals[regs[i].name]
                 w == regs[i].dtype.bitsize
             IN  /\ val.shape = regs[i].shape
                 /\ val.ndarray <=> regs[i].shape # <<>>
                 /\ \A j \in 1..Volume(regs[i].shape) :
                      ElemAt(val, j)
                        = (x \div (2 ^ (bloq.n - BitsBefore(regs, i - 1) - j * w)))
                            % (2 ^ w)
        /\ (/\ bloq.n = 4 /\ x = 11 /\ Len(regs) = 2
            /\ \A i \in 1..2 : regs[i].shape = <<>> /\ regs[i].dtype.bitsize = 2) =>
             /\ ret.vals[regs[1].name].a = 2
             /\ ret.vals[regs[2].name].a = 3

C9_Witness ==
  /\ FirstEval("on_classical_vals")
  /\ bloq.cls = "Partition"
  /\ bloq.partition
  /\ bloq.n = 4
  /\ Len(bloq.regs) = 2
  /\ bloq.regs[1] = Register("hi", QAny(2), <<>>, "THRU")
  /\ bloq.regs[2] = Register("lo", QAny(2), <<>>, "THRU")
  /\ arg.vals["x"].a = 11
  /\ ret.status = "ok"
  /\ ret.vals["hi"].a = 2
  /\ ret.vals["lo"].a = 3

----------------------------------------------------------------------------
(* C10 *)

\* C10: for a valid Partition(n, regs) and n distinct wires, as_cirq_op of the
\* partition followed by as_cirq_op of its adjoint returns the wires in the
\* original order, in whatever order the named arrays are passed.
C10_WireRoundTrip ==
  (/\ hist = <<"as_cirq_op", "adjoint", "as_cirq_op">>
   /\ ValidPartition(orig)
   /\ orig.partition) =>
    /\ ret.status = "ok"
    /\ ravel(Lookup(ret.vals, "x")) = ravel(Lookup(arg.vals, "x"))

====
